---- MODULE Spec2Model ----
(***************************************************************************)
(* circom-compat: the R1CS container reader (src/r1cs_reader.rs) and the   *)
(* circuit synthesizer (src/circuit.rs).                                   *)
(*                                                                         *)
(* A byte stream is a sequence of bytes 0..255; the reader's cursor is a   *)
(* zero-based offset into it.  A file is produced by encoding a file       *)
(* description (desc), parsed by R1CSFile::new, converted to R1CS, paired  *)
(* with an optional witness and synthesized call by call against a target  *)
(* constraint system whose calls may fail.                                 *)
(*                                                                         *)
(* TLC's integers are 32-bit signed: every u32/u64 word the generated      *)
(* streams hold is below 2^31 (the modulus word 0x7fffffff is the          *)
(* largest), so no word of the model is truncated.                         *)
(***************************************************************************)
EXTENDS Integers, Sequences, FiniteSets, TLC

VARIABLES desc, data, pc, file, r1cs, witness, public, cs, calls, result, idx

vars == <<desc, data, pc, file, r1cs, witness, public, cs, calls, result, idx>>

(***************************************************************************)
(* Bounds of the model.                                                    *)
(***************************************************************************)
MaxSections == 3
MaxPub == 1
MaxAux == 1

(***************************************************************************)
(* Program constants.                                                      *)
(***************************************************************************)
HeaderType == 1
ConstraintType == 2
SupportedVersion == 1
SupportedFieldSize == 4
HeaderFixedSize == 32
Prime == 2147483647

Magic == <<114, 49, 99, 115>>
PrimeBytes == <<255, 255, 255, 127>>

(***************************************************************************)
(* Little-endian words.                                                    *)
(***************************************************************************)
RECURSIVE LE(_, _)
LE(v, n) == IF n = 0 THEN <<>> ELSE <<v % 256>> \o LE(v \div 256, n - 1)

RECURSIVE LEValue(_)
LEValue(bs) ==
  IF bs = <<>> THEN 0
  ELSE IF \A i \in 2..Len(bs) : bs[i] = 0 THEN bs[1]
  ELSE bs[1] + 256 * LEValue(Tail(bs))

RECURSIVE Concat(_)
Concat(ss) == IF ss = <<>> THEN <<>> ELSE Head(ss) \o Concat(Tail(ss))

(***************************************************************************)
(* The reader: a cursor over the bytes.  read_exact and the read_uNN       *)
(* helpers fail with UnexpectedEof when fewer bytes remain than asked for. *)
(***************************************************************************)
Eof == "UnexpectedEof"
Err(e) == [ok |-> FALSE, err |-> e]

CanRead(d, pos, n) == pos + n <= Len(d)
Bytes(d, pos, n) == SubSeq(d, pos + 1, pos + n)
read_u32(d, pos) == LEValue(Bytes(d, pos, 4))
read_u64(d, pos) == LEValue(Bytes(d, pos, 8))

\* F::from(v: u32): the canonical embedding of an unsigned word in the field.
FieldFrom(v) == v % Prime

(***************************************************************************)
(* Header::new                                                             *)
(***************************************************************************)
\* The fingerprint compared in byte-reversed order.
SupportedPrime_Reversed(prime_size) ==
  prime_size = [i \in 1..Len(PrimeBytes) |-> PrimeBytes[Len(PrimeBytes) + 1 - i]]

\* prime_size == hex::decode("ffffff7f")
SupportedPrime(prime_size) == prime_size = PrimeBytes

HeaderNew(d, pos, size) ==
  IF ~CanRead(d, pos, 4) THEN Err(Eof)
  ELSE LET field_size == read_u32(d, pos) IN
  IF field_size # SupportedFieldSize
    THEN Err("This parser only supports 4-byte fields")
  ELSE IF size # HeaderFixedSize + field_size
    THEN Err("Invalid header section size")
  ELSE IF ~CanRead(d, pos + 4, field_size) THEN Err(Eof)
  ELSE LET prime_size == Bytes(d, pos + 4, field_size)
           p == pos + 4 + field_size IN
  IF ~SupportedPrime(prime_size) THEN Err("This parser only supports m31")
  ELSE IF ~CanRead(d, p, 28) THEN Err(Eof)
  ELSE [ok |-> TRUE,
        header |-> [field_size |-> field_size,
                    prime_size |-> prime_size,
                    n_wires |-> read_u32(d, p),
                    n_pub_out |-> read_u32(d, p + 4),
                    n_pub_in |-> read_u32(d, p + 8),
                    n_prv_in |-> read_u32(d, p + 12),
                    n_labels |-> read_u64(d, p + 16),
                    n_constraints |-> read_u32(d, p + 24)],
        pos |-> p + 28]

(***************************************************************************)
(* read_constraint_vec: a term count, then that many (index, value) pairs. *)
(***************************************************************************)
\* Terms with the index of the term before them are folded into it.
RECURSIVE read_terms_merged(_, _, _, _)
read_terms_merged(d, pos, n, vec) ==
  IF n = 0 THEN [ok |-> TRUE, vec |-> vec, pos |-> pos]
  ELSE IF ~CanRead(d, pos, 8) THEN Err(Eof)
  ELSE LET i == read_u32(d, pos)
           v == FieldFrom(read_u32(d, pos + 4)) IN
       read_terms_merged(d, pos + 8, n - 1,
         IF vec # <<>> /\ vec[Len(vec)][1] = i
           THEN [vec EXCEPT ![Len(vec)] = <<i, (@[2] + v) % Prime>>]
           ELSE Append(vec, <<i, v>>))

RECURSIVE read_terms(_, _, _, _)
read_terms(d, pos, n, vec) ==
  IF n = 0 THEN [ok |-> TRUE, vec |-> vec, pos |-> pos]
  ELSE IF ~CanRead(d, pos, 8) THEN Err(Eof)
  ELSE read_terms(d, pos + 8, n - 1,
                  Append(vec, <<read_u32(d, pos), FieldFrom(read_u32(d, pos + 4))>>))

read_constraint_vec(d, pos) ==
  IF ~CanRead(d, pos, 4) THEN Err(Eof)
  ELSE read_terms(d, pos + 4, read_u32(d, pos), <<>>)

(***************************************************************************)
(* read_constraints: header.n_constraints triples (A, B, C).               *)
(***************************************************************************)
RECURSIVE read_constraints_from(_, _, _, _)
read_constraints_from(d, pos, n, vec) ==
  IF n = 0 THEN [ok |-> TRUE, vec |-> vec, pos |-> pos]
  ELSE LET a == read_constraint_vec(d, pos) IN
  IF ~a.ok THEN a
  ELSE LET b == read_constraint_vec(d, a.pos) IN
  IF ~b.ok THEN b
  ELSE LET c == read_constraint_vec(d, b.pos) IN
  IF ~c.ok THEN c
  ELSE read_constraints_from(d, c.pos, n - 1, Append(vec, <<a.vec, b.vec, c.vec>>))

read_constraints(d, pos, header) ==
  read_constraints_from(d, pos, header.n_constraints, <<>>)

(***************************************************************************)
(* R1CSFile::new                                                           *)
(***************************************************************************)
Insert(m, k, v) == [x \in DOMAIN m \cup {k} |-> IF x = k THEN v ELSE m[x]]
EmptyMap == [x \in {} |-> 0]

\* The section loop: type, length, the position after them as the section's
\* offset, then a seek forward by the declared length.
RECURSIVE read_sections(_, _, _, _, _)
read_sections(d, pos, n, sec_offsets, sec_sizes) ==
  IF n = 0 THEN [ok |-> TRUE, sec_offsets |-> sec_offsets, sec_sizes |-> sec_sizes]
  ELSE IF ~CanRead(d, pos, 12) THEN Err(Eof)
  ELSE LET sec_type == read_u32(d, pos)
           sec_size == read_u64(d, pos + 4)
           offset == pos + 12 IN
       read_sections(d, offset + sec_size, n - 1,
                     Insert(sec_offsets, sec_type, offset),
                     Insert(sec_sizes, sec_type, sec_size))

\* A lookup that falls back to offset 0 for a key never inserted.
get_or_zero(m, k) == IF k \in DOMAIN m THEN <<m[k]>> ELSE <<0>>

\* HashMap::get: None for a key never inserted.
get(m, k) == IF k \in DOMAIN m THEN <<m[k]>> ELSE <<>>

\* The header taken to be the first section of the file.
header_offset_first(sec_offsets) ==
  IF DOMAIN sec_offsets = {} THEN <<>>
  ELSE <<CHOOSE o \in {sec_offsets[t] : t \in DOMAIN sec_offsets} :
           \A t \in DOMAIN sec_offsets : o <= sec_offsets[t]>>

header_offset(sec_offsets) == get(sec_offsets, HeaderType)
header_size(sec_sizes) == get(sec_sizes, HeaderType)
constraint_offset(sec_offsets) == get(sec_offsets, ConstraintType)

R1CSFileNew(d) ==
  IF ~CanRead(d, 0, 4) THEN Err(Eof)
  ELSE IF Bytes(d, 0, 4) # Magic THEN Err("Invalid magic number")
  ELSE IF ~CanRead(d, 4, 4) THEN Err(Eof)
  ELSE LET version == read_u32(d, 4) IN
  IF version # SupportedVersion THEN Err("Unsupported version")
  ELSE IF ~CanRead(d, 8, 4) THEN Err(Eof)
  ELSE LET secs == read_sections(d, 12, read_u32(d, 8), EmptyMap, EmptyMap) IN
  IF ~secs.ok THEN secs
  ELSE IF header_offset(secs.sec_offsets) = <<>>
    THEN Err("No section offset for header type found")
  ELSE IF header_size(secs.sec_sizes) = <<>>
    THEN Err("No section size for header type found")
  ELSE LET h == HeaderNew(d, header_offset(secs.sec_offsets)[1],
                          header_size(secs.sec_sizes)[1]) IN
  IF ~h.ok THEN h
  ELSE IF constraint_offset(secs.sec_offsets) = <<>>
    THEN Err("No section offset for constraint type found")
  ELSE LET c == read_constraints(d, constraint_offset(secs.sec_offsets)[1], h.header) IN
  IF ~c.ok THEN c
  ELSE [ok |-> TRUE, version |-> version, header |-> h.header, constraints |-> c.vec]

(***************************************************************************)
(* impl From<R1CSFile<F>> for R1CS<F>.  The subtraction is on usize: when   *)
(* n_wires is below num_inputs it underflows, which panics in a build with *)
(* overflow checks and wraps to 2^64 - k without them.                     *)
(***************************************************************************)
\* num_inputs without the constant wire.
R1CSFrom_NoConstant(f) ==
  LET num_inputs == f.header.n_pub_in + f.header.n_pub_out
      num_variables == f.header.n_wires IN
  [num_aux |-> num_variables - num_inputs,
   num_inputs |-> num_inputs,
   num_variables |-> num_variables,
   constraints |-> f.constraints]

R1CSFrom(f) ==
  LET num_inputs == 1 + f.header.n_pub_in + f.header.n_pub_out
      num_variables == f.header.n_wires
      num_aux == num_variables - num_inputs IN
  [num_aux |-> num_aux,
   num_inputs |-> num_inputs,
   num_variables |-> num_variables,
   constraints |-> f.constraints]

Underflows(f) == f.header.n_wires < 1 + f.header.n_pub_in + f.header.n_pub_out
UnderflowOutcomes == {"panic", "wrapped"}

(***************************************************************************)
(* CircomCircuit                                                           *)
(***************************************************************************)
\* Option<T>: None is the empty sequence, Some(x) the sequence holding x.
None == <<>>
Some(x) == <<x>>
NotCalled == [called |-> FALSE, value |-> None]
Returned(v) == [called |-> TRUE, value |-> v]
One == FieldFrom(1)

\* w[0..num_inputs - 1].to_vec(): the constant wire kept, the last input lost.
get_public_inputs_from_zero(r, w) ==
  IF w = None THEN None ELSE Some(SubSeq(w[1], 1, r.num_inputs - 1))

\* w[1..num_inputs].to_vec()
get_public_inputs(r, w) ==
  IF w = None THEN None ELSE Some(SubSeq(w[1], 2, r.num_inputs))

\* The value closures handed to the target system; w is indexed from 0.
input_value(w, i) == IF w = None THEN One ELSE w[1][i + 1]
\* w[i + num_inputs - 1]: the private values shifted by one wire.
aux_value_shifted(r, w, i) == IF w = None THEN One ELSE w[1][i + r.num_inputs]

aux_value(r, w, i) == IF w = None THEN One ELSE w[1][i + r.num_inputs + 1]

make_index(r, index) ==
  IF index < r.num_inputs THEN <<"Instance", index>>
  ELSE <<"Witness", index - r.num_inputs>>

\* The fold of lc + (coeff, make_index(index)) from LinearCombination::zero().
make_lc(r, lc_data) ==
  [k \in 1..Len(lc_data) |-> <<lc_data[k][2], make_index(r, lc_data[k][1])>>]

\* The target constraint system as ConstraintSystem::new() leaves it: the
\* instance space holds the constant One at index 0.
NewCS == [instance |-> <<One>>, witness |-> <<>>, constraints |-> <<>>]
SynthesisErrors == {"AssignmentMissing", "Unsatisfiable"}
Ok == "Ok"

\* The public loop stopping one wire early.
Stage_ShortInputs(r, stage, i) ==
  IF stage = "inputs" /\ i < r.num_inputs - 1 THEN <<"inputs", i>>
  ELSE IF stage = "inputs" /\ 0 < r.num_aux THEN <<"aux", 0>>
  ELSE IF stage = "aux" /\ i < r.num_aux THEN <<"aux", i>>
  ELSE IF stage \in {"inputs", "aux"} /\ 0 < Len(r.constraints) THEN <<"enforce", 1>>
  ELSE IF stage = "enforce" /\ i <= Len(r.constraints) THEN <<"enforce", i>>
  ELSE <<"done", 0>>

\* Where generate_constraints stands once the loop at `stage` has reached i.
Stage(r, stage, i) ==
  IF stage = "inputs" /\ i < r.num_inputs THEN <<"inputs", i>>
  ELSE IF stage = "inputs" /\ 0 < r.num_aux THEN <<"aux", 0>>
  ELSE IF stage = "aux" /\ i < r.num_aux THEN <<"aux", i>>
  ELSE IF stage \in {"inputs", "aux"} /\ 0 < Len(r.constraints) THEN <<"enforce", 1>>
  ELSE IF stage = "enforce" /\ i <= Len(r.constraints) THEN <<"enforce", i>>
  ELSE <<"done", 0>>

(***************************************************************************)
(* The input files: encodings of file descriptions.                        *)
(***************************************************************************)
SecTypes == {1, 2, 3}
OtherPayload == <<3, 0, 0, 0, 9>>
BadMagic == <<114, 49, 99, 114>>
BadPrimeBytes == <<127, 255, 255, 255>>

EncodeHeader(h) ==
  LE(h.field_size, 4)
    \o h.prime \o [i \in 1..(h.field_size - Len(h.prime)) |-> 0]
    \o LE(h.n_wires, 4) \o LE(h.n_pub_out, 4) \o LE(h.n_pub_in, 4)
    \o LE(h.n_prv_in, 4) \o LE(h.n_labels, 8) \o LE(h.n_constraints, 4)
    \o [i \in 1..h.pad |-> 0]

EncodeVec(v) ==
  LE(Len(v), 4) \o Concat([k \in 1..Len(v) |-> LE(v[k][1], 4) \o LE(v[k][2], 4)])

EncodeConstraints(cons) ==
  Concat([k \in 1..Len(cons) |->
            EncodeVec(cons[k][1]) \o EncodeVec(cons[k][2]) \o EncodeVec(cons[k][3])])

Payload(d, t) ==
  IF t = HeaderType THEN EncodeHeader(d.hdr)
  ELSE IF t = ConstraintType THEN EncodeConstraints(d.cons)
  ELSE OtherPayload

EncodeSection(d, t) == LE(t, 4) \o LE(Len(Payload(d, t)), 8) \o Payload(d, t)

EncodeLayout(d, layout) ==
  d.magic \o LE(d.version, 4) \o LE(Len(layout), 4)
    \o Concat([k \in 1..Len(layout) |-> EncodeSection(d, layout[k])])

EncodeFile(d) ==
  LET full == EncodeLayout(d, d.layout) IN
  SubSeq(full, 1, IF d.cut < Len(full) THEN Len(full) - d.cut ELSE 0)

Layouts == UNION {[1..n -> SecTypes] : n \in 0..MaxSections}
\* Bytes missing from the end of a truncated stream.
Cuts == {0, 1, 5, 9, 13}

\* One constraint  w1 * w2 = w3.
Product == << << <<1, 1>> >>, << <<2, 1>> >>, << <<3, 1>> >> >>
\* A repeated index, an empty combination, a value equal to the modulus.
Repeated == << << <<1, 1>>, <<1, 2>> >>, <<>>, << <<0, Prime>> >> >>
\* An index outside every wire space of the model.
OutOfRange == << << <<9, 1>> >>, << <<0, 1>> >>, << <<0, 1>>, <<9, 2>> >> >>

ConstraintPool == {<<>>, <<Product>>, <<Repeated, Product>>, <<OutOfRange>>}

\* pad: bytes appended to the header payload, counted in its declared length.
HeaderOf(field_size, prime, pad, n_wires, n_pub_out, n_pub_in, n_constraints) ==
  [field_size |-> field_size, prime |-> prime, pad |-> pad,
   n_wires |-> n_wires, n_pub_out |-> n_pub_out, n_pub_in |-> n_pub_in,
   n_prv_in |-> 5, n_labels |-> 6, n_constraints |-> n_constraints]

\* Container variations around one circuit.
ContainerFiles ==
  {[magic |-> m, version |-> v, layout |-> l, cut |-> c, cons |-> <<Product>>,
    hdr |-> HeaderOf(fs, p, pad, 4, 1, 1, 1)] :
      m \in {Magic, BadMagic}, v \in {0, 1, 2}, l \in Layouts, c \in Cuts,
      fs \in {4, 8}, p \in {PrimeBytes, BadPrimeBytes}, pad \in {0, 1}}

\* Content variations in a sound container.
ContentFiles ==
  {[magic |-> Magic, version |-> 1, layout |-> l, cut |-> c, cons |-> cons,
    hdr |-> HeaderOf(4, PrimeBytes, 0, 1 + po + pi + aux, po, pi,
                     IF Len(cons) + more < 0 THEN 0 ELSE Len(cons) + more)] :
      l \in {<<1, 2>>, <<2, 1>>, <<2, 3, 1>>}, c \in Cuts, cons \in ConstraintPool,
      po \in 0..MaxPub, pi \in 0..MaxPub, aux \in (-1)..MaxAux, more \in {-1, 0, 1}}

Files == ContainerFiles \cup ContentFiles

\* Witnesses of length n = num_variables, with pairwise distinct values past
\* the constant wire; the value at wire 0 is whatever the caller put there.
Witnesses(n) ==
  {None} \cup {Some([i \in 1..n |-> IF i = 1 THEN w0 ELSE base + i]) :
                 w0 \in {1, 2}, base \in {10, 20}}

(***************************************************************************)
(* The state machine.                                                      *)
(***************************************************************************)
Init ==
  /\ desc \in Files
  /\ data = EncodeFile(desc)
  /\ pc = "start"
  /\ file = None
  /\ r1cs = None
  /\ witness = None
  /\ public = NotCalled
  /\ cs = NewCS
  /\ calls = <<>>
  /\ result = "None"
  /\ idx = 0

\* R1CSFile::new(reader)
Parse ==
  /\ pc = "start"
  /\ file' = R1CSFileNew(data)
  /\ pc' = "parsed"
  /\ UNCHANGED <<desc, data, r1cs, witness, public, cs, calls, result, idx>>

\* R1CS::from(file)
Convert ==
  /\ pc = "parsed"
  /\ file.ok
  /\ ~Underflows(file)
  /\ r1cs' = R1CSFrom(file)
  /\ pc' = "converted"
  /\ UNCHANGED <<desc, data, file, witness, public, cs, calls, result, idx>>

\* R1CS::from(file) when num_variables - num_inputs underflows.
ConvertUnderflow ==
  /\ pc = "parsed"
  /\ file.ok
  /\ Underflows(file)
  /\ \E o \in UnderflowOutcomes : r1cs' = o
  /\ pc' = "aborted"
  /\ UNCHANGED <<desc, data, file, witness, public, cs, calls, result, idx>>

\* CircomCircuit { r1cs, witness }
MakeCircuit ==
  /\ pc = "converted"
  /\ \E w \in Witnesses(r1cs.num_variables) : witness' = w
  /\ pc' = "circuit"
  /\ UNCHANGED <<desc, data, file, r1cs, public, cs, calls, result, idx>>

\* circuit.get_public_inputs()
GetPublicInputs ==
  /\ pc = "circuit"
  /\ ~public.called
  /\ public' = Returned(get_public_inputs(r1cs, witness))
  /\ UNCHANGED <<desc, data, pc, file, r1cs, witness, cs, calls, result, idx>>

Goto(st) ==
  /\ pc' = st[1]
  /\ idx' = st[2]
  /\ result' = IF st[1] = "done" THEN Ok ELSE result

\* circuit.generate_constraints(cs): entry.
Begin ==
  /\ pc = "circuit"
  /\ Goto(Stage(r1cs, "inputs", 1))
  /\ UNCHANGED <<desc, data, file, r1cs, witness, public, cs, calls>>

\* A failed call whose error is dropped: synthesis reports success.
Fail_Swallowed(call, e) ==
  /\ calls' = Append(calls, call \o <<e>>)
  /\ result' = Ok
  /\ pc' = "done"
  /\ idx' = idx
  /\ UNCHANGED <<desc, data, file, r1cs, witness, public, cs>>

\* A failed call: `?` returns the target's error at once.
Fail(call, e) ==
  /\ calls' = Append(calls, call \o <<e>>)
  /\ result' = e
  /\ pc' = "done"
  /\ idx' = idx
  /\ UNCHANGED <<desc, data, file, r1cs, witness, public, cs>>

\* cs.new_input_variable(|| ...)?
NewInputVariable ==
  /\ pc = "inputs"
  /\ LET v == input_value(witness, idx) IN
     \/ /\ cs' = [cs EXCEPT !.instance = Append(@, v)]
        /\ calls' = Append(calls, <<"new_input_variable", v, Ok>>)
        /\ Goto(Stage(r1cs, "inputs", idx + 1))
        /\ UNCHANGED <<desc, data, file, r1cs, witness, public>>
     \/ \E e \in SynthesisErrors : Fail(<<"new_input_variable", v>>, e)

\* cs.new_witness_variable(|| ...)?
NewWitnessVariable ==
  /\ pc = "aux"
  /\ LET v == aux_value(r1cs, witness, idx) IN
     \/ /\ cs' = [cs EXCEPT !.witness = Append(@, v)]
        /\ calls' = Append(calls, <<"new_witness_variable", v, Ok>>)
        /\ Goto(Stage(r1cs, "aux", idx + 1))
        /\ UNCHANGED <<desc, data, file, r1cs, witness, public>>
     \/ \E e \in SynthesisErrors : Fail(<<"new_witness_variable", v>>, e)

\* cs.enforce_constraint(make_lc(A), make_lc(B), make_lc(C))?
EnforceConstraint ==
  /\ pc = "enforce"
  /\ LET c == r1cs.constraints[idx]
         abc == <<make_lc(r1cs, c[1]), make_lc(r1cs, c[2]), make_lc(r1cs, c[3])>> IN
     \/ /\ cs' = [cs EXCEPT !.constraints = Append(@, abc)]
        /\ calls' = Append(calls, <<"enforce_constraint", abc, Ok>>)
        /\ Goto(Stage(r1cs, "enforce", idx + 1))
        /\ UNCHANGED <<desc, data, file, r1cs, witness, public>>
     \/ \E e \in SynthesisErrors : Fail(<<"enforce_constraint", abc>>, e)

Next ==
  \/ Parse
  \/ Convert
  \/ ConvertUnderflow
  \/ MakeCircuit
  \/ GetPublicInputs
  \/ Begin
  \/ NewInputVariable
  \/ NewWitnessVariable
  \/ EnforceConstraint

Spec == Init /\ [][Next]_vars

(***************************************************************************)
(* What a file description says about the stream it encodes.               *)
(***************************************************************************)
Range(q) == {q[i] : i \in DOMAIN q}
LastType(d) == d.layout[Len(d.layout)]
Failed(e) == ~file.ok /\ file.err = e

GoodPreamble(d) == d.magic = Magic /\ d.version = SupportedVersion
HasHeader(d) == HeaderType \in Range(d.layout)
HasConstraints(d) == ConstraintType \in Range(d.layout)
HeaderValid(d) ==
  d.hdr.field_size = SupportedFieldSize /\ d.hdr.prime = PrimeBytes /\ d.hdr.pad = 0

\* Every section's type and length survive the cut: only the payload of the
\* last section can be short.
TableIntact(d) ==
  d.cut = 0 \/ (d.layout # <<>> /\ d.cut <= Len(Payload(d, LastType(d))))
\* The section of type t that the reader consults (the last one) is whole.
Intact(d, t) ==
  t \in Range(d.layout) /\ TableIntact(d) /\ (d.cut = 0 \/ LastType(d) # t)

(***************************************************************************)
(* C1 as stated: a stream whose magic, version, field width or modulus     *)
(* fingerprint is wrong is rejected with the error of that very fault      *)
(* (read here for whole streams and for the first fault in reading order). *)
(***************************************************************************)
C1_Original ==
  (pc # "start" /\ desc.cut = 0) =>
    /\ (desc.magic # Magic => Failed("Invalid magic number"))
    /\ (desc.magic = Magic /\ desc.version # SupportedVersion
          => Failed("Unsupported version"))
    /\ (GoodPreamble(desc) /\ HasHeader(desc)
          /\ desc.hdr.field_size # SupportedFieldSize
          => Failed("This parser only supports 4-byte fields"))
    /\ (GoodPreamble(desc) /\ HasHeader(desc)
          /\ desc.hdr.field_size = SupportedFieldSize /\ desc.hdr.prime # PrimeBytes
          => Failed("This parser only supports m31"))

(***************************************************************************)
(* C1 as amended: none of the four faults ever yields a model, and the     *)
(* error is that of the first check to fail in the order magic, version,   *)
(* field width, declared header length, modulus fingerprint; a wrong       *)
(* fingerprint is reported as such only when the declared header length    *)
(* is right.                                                               *)
(***************************************************************************)
C1_RejectsInOrder ==
  pc # "start" =>
    /\ (\/ desc.magic # Magic
        \/ desc.version # SupportedVersion
        \/ HasHeader(desc) /\ desc.hdr.field_size # SupportedFieldSize
        \/ HasHeader(desc) /\ desc.hdr.prime # PrimeBytes) => ~file.ok
    /\ (Len(data) >= 4 /\ desc.magic # Magic => Failed("Invalid magic number"))
    /\ (Len(data) >= 8 /\ desc.magic = Magic /\ desc.version # SupportedVersion
          => Failed("Unsupported version"))
    /\ (GoodPreamble(desc) /\ Intact(desc, HeaderType) =>
          IF desc.hdr.field_size # SupportedFieldSize
            THEN Failed("This parser only supports 4-byte fields")
          ELSE IF desc.hdr.pad # 0 THEN Failed("Invalid header section size")
          ELSE desc.hdr.prime # PrimeBytes => Failed("This parser only supports m31"))

C1_Witness ==
  /\ pc = "parsed"
  /\ GoodPreamble(desc) /\ Intact(desc, HeaderType)
  /\ desc.hdr.field_size = SupportedFieldSize /\ desc.hdr.pad = 0
  /\ desc.hdr.prime # PrimeBytes
  /\ Failed("This parser only supports m31")

\* A file that is valid throughout, and its sections put header first.
ValidFile(d) ==
  /\ GoodPreamble(d) /\ HeaderValid(d) /\ d.cut = 0
  /\ HasHeader(d) /\ HasConstraints(d)
  /\ d.hdr.n_constraints = Len(d.cons)

IsHeaderType(t) == t = HeaderType
IsConstraintType(t) == t = ConstraintType
IsOtherType(t) == t \notin {HeaderType, ConstraintType}
HeaderFirst(layout) ==
  SelectSeq(layout, IsHeaderType) \o SelectSeq(layout, IsConstraintType)
    \o SelectSeq(layout, IsOtherType)

(***************************************************************************)
(* C2: a valid file with its sections in any order, other section types    *)
(* interleaved, parses to the model of the same sections put header first. *)
(***************************************************************************)
C2_OrderIndependent ==
  (pc = "parsed" /\ ValidFile(desc)) =>
    /\ file.ok
    /\ file = R1CSFileNew(EncodeLayout(desc, HeaderFirst(desc.layout)))

C2_Witness ==
  /\ pc = "parsed" /\ ValidFile(desc)
  /\ desc.layout = <<2, 3, 1>>
  /\ file.ok /\ Len(file.constraints) = 2

(***************************************************************************)
(* C8: with magic and version right and the section table read to its end, *)
(* a table without type 1 fails with the missing-header error; with a      *)
(* valid header but no type 2 it fails with the missing-constraint error.  *)
(***************************************************************************)
C8_MissingSection ==
  (pc # "start" /\ GoodPreamble(desc) /\ TableIntact(desc)) =>
    /\ (~HasHeader(desc) => Failed("No section offset for header type found"))
    /\ (Intact(desc, HeaderType) /\ HeaderValid(desc) /\ ~HasConstraints(desc)
          => Failed("No section offset for constraint type found"))

C8_Witness ==
  /\ pc = "parsed"
  /\ desc.layout = <<3, 1>>
  /\ Failed("No section offset for constraint type found")

(***************************************************************************)
(* C9: the header of every parsed file satisfies                           *)
(* wire_count >= 1 + public_in + public_out.                               *)
(***************************************************************************)
C9_HeaderInvariant ==
  (pc # "start" /\ file.ok) =>
    file.header.n_wires >= 1 + file.header.n_pub_in + file.header.n_pub_out

\* A constraint as the reader stores it: indices kept, values embedded.
Stored(c) ==
  [j \in 1..3 |-> [t \in 1..Len(c[j]) |-> <<c[j][t][1], c[j][t][2] % Prime>>]]

ConstraintsReached(d) ==
  GoodPreamble(d) /\ HeaderValid(d) /\ Intact(d, HeaderType) /\ HasConstraints(d)

(***************************************************************************)
(* C10: the constraint block reader fails or returns exactly n_constraints *)
(* constraints, the k-th being the k-th (A, B, C) group of the stream with *)
(* every term in stream order and repeated indices kept apart; a short     *)
(* read fails the whole read.                                              *)
(***************************************************************************)
C10_ConstraintBlock ==
  pc # "start" =>
    /\ file.ok => Len(file.constraints) = file.header.n_constraints
    /\ (ConstraintsReached(desc) /\ Intact(desc, ConstraintType)
          /\ desc.hdr.n_constraints <= Len(desc.cons)) =>
         /\ file.ok
         /\ file.constraints =
              [k \in 1..desc.hdr.n_constraints |-> Stored(desc.cons[k])]
    /\ (ConstraintsReached(desc) /\ TableIntact(desc)
          /\ LastType(desc) = ConstraintType
          /\ \/ desc.hdr.n_constraints > Len(desc.cons)
             \/ desc.cut > 0 /\ desc.hdr.n_constraints = Len(desc.cons))
         => Failed(Eof)

C10_Witness ==
  /\ pc = "parsed"
  /\ desc.cons = <<Repeated, Product>>
  /\ file.ok
  /\ file.constraints[1][1] = << <<1, 1>>, <<1, 2>> >>
  /\ file.constraints[1][3] = << <<0, 0>> >>

\* Where the pipeline stands.
HasR1CS == pc \in {"converted", "circuit", "inputs", "aux", "enforce", "done"}
InSynthesis == pc \in {"inputs", "aux", "enforce", "done"}

(***************************************************************************)
(* C6: for a file whose header satisfies                                   *)
(* wire_count = 1 + pub_in + pub_out + aux_count, the conversion yields    *)
(* num_inputs = 1 + pub_in + pub_out, num_variables = wire_count,          *)
(* num_aux = aux_count and the file's constraints unchanged.               *)
(***************************************************************************)
C6_Conversion ==
  HasR1CS =>
    LET h == file.header
        aux_count == h.n_wires - 1 - h.n_pub_in - h.n_pub_out IN
    aux_count >= 0 =>
      /\ r1cs.num_inputs = 1 + h.n_pub_in + h.n_pub_out
      /\ r1cs.num_variables = h.n_wires
      /\ r1cs.num_aux = aux_count
      /\ r1cs.num_inputs + r1cs.num_aux = r1cs.num_variables
      /\ r1cs.constraints = file.constraints

C6_Witness ==
  /\ pc = "converted"
  /\ r1cs.num_inputs = 3 /\ r1cs.num_aux = 1 /\ r1cs.num_variables = 4
  /\ Len(r1cs.constraints) = 2

(***************************************************************************)
(* C7: get_public_inputs returns w[1], ..., w[num_inputs - 1] in order     *)
(* when a witness w is present, the absent result otherwise, and leaves    *)
(* the circuit instance unchanged.                                         *)
(***************************************************************************)
C7_PublicInputs ==
  /\ [](public.called =>
          IF witness = None THEN public.value = None
          ELSE /\ Len(public.value) = 1
               /\ Len(public.value[1]) = r1cs.num_inputs - 1
               /\ \A k \in 1..(r1cs.num_inputs - 1) :
                    public.value[1][k] = witness[1][k + 1])
  /\ [][public' # public => (r1cs' = r1cs /\ witness' = witness)]_vars

C7_Witness ==
  /\ public.called
  /\ witness # None /\ Len(witness[1]) = 4
  /\ r1cs.num_inputs = 3
  /\ public.value = Some(<<witness[1][2], witness[1][3]>>)

\* The calls a circuit model asks for, by the rule of the specification.
ExpectedOps(r) ==
  [k \in 1..(r.num_inputs - 1) |-> "new_input_variable"]
    \o [k \in 1..r.num_aux |-> "new_witness_variable"]
    \o [k \in 1..Len(r.constraints) |-> "enforce_constraint"]

Ops(cl) == [k \in 1..Len(cl) |-> cl[k][1]]
AllOk(cl) == \A k \in 1..Len(cl) : cl[k][3] = Ok
IsPrefix(a, b) == Len(a) <= Len(b) /\ a = SubSeq(b, 1, Len(a))

\* The variable a wire index stands for.
VarOf(r, i) ==
  IF i < r.num_inputs THEN <<"Instance", i>> ELSE <<"Witness", i - r.num_inputs>>
Translated(r, lc) == [t \in 1..Len(lc) |-> <<lc[t][2], VarOf(r, lc[t][1])>>]

(***************************************************************************)
(* C3: with no failing call, the calls to the target system are            *)
(* num_inputs - 1 public allocations, then num_aux private allocations,    *)
(* then one enforcement per constraint in file order; the constant wire    *)
(* is not allocated, and the sequence does not depend on the witness.      *)
(***************************************************************************)
C3_CallOrder ==
  InSynthesis =>
    /\ IsPrefix(Ops(calls), ExpectedOps(r1cs))
    /\ (pc = "done" /\ result = Ok) =>
         /\ Ops(calls) = ExpectedOps(r1cs)
         /\ Len(cs.instance) = r1cs.num_inputs
         /\ cs.instance[1] = One
         /\ \A k \in 1..Len(r1cs.constraints) :
              calls[r1cs.num_inputs - 1 + r1cs.num_aux + k][2] =
                [j \in 1..3 |-> Translated(r1cs, r1cs.constraints[k][j])]

C3_Witness ==
  /\ pc = "done" /\ result = Ok
  /\ r1cs.num_inputs = 3 /\ r1cs.num_aux = 1
  /\ Len(calls) = 5

\* What the target holds for a variable handle.
Allocated(c, var) ==
  var[2] < Len(IF var[1] = "Instance" THEN c.instance ELSE c.witness)
ValueOf(c, var) ==
  IF var[1] = "Instance" THEN c.instance[var[2] + 1] ELSE c.witness[var[2] + 1]

HoldsWire(i) ==
  /\ make_index(r1cs, i) = VarOf(r1cs, i)
  /\ Allocated(cs, VarOf(r1cs, i))
  /\ ValueOf(cs, VarOf(r1cs, i)) = witness[1][i + 1]

AllPlaceholders ==
  /\ \A k \in 1..Len(cs.instance) : cs.instance[k] = One
  /\ \A k \in 1..Len(cs.witness) : cs.witness[k] = One
  /\ Len(cs.instance) = r1cs.num_inputs
  /\ Len(cs.witness) = r1cs.num_aux

(***************************************************************************)
(* C4 as stated: after synthesis with a witness w, for every wire index i  *)
(* in [0, num_variables) the variable i translates to is allocated and     *)
(* holds w[i]; without a witness every allocated variable holds one.       *)
(***************************************************************************)
C4_Original ==
  (pc = "done" /\ result = Ok) =>
    IF witness = None THEN AllPlaceholders
    ELSE \A i \in 0..(r1cs.num_variables - 1) : HoldsWire(i)

(***************************************************************************)
(* C4 as amended: the same for every wire index i in [1, num_variables);   *)
(* index 0 translates to the target's constant slot, which holds one       *)
(* whatever w[0] is.                                                       *)
(***************************************************************************)
C4_Correspondence ==
  (pc = "done" /\ result = Ok) =>
    IF witness = None THEN AllPlaceholders
    ELSE /\ \A i \in 1..(r1cs.num_variables - 1) : HoldsWire(i)
         /\ make_index(r1cs, 0) = <<"Instance", 0>>
         /\ ValueOf(cs, <<"Instance", 0>>) = One

C4_Witness ==
  /\ pc = "done" /\ result = Ok
  /\ witness # None /\ witness[1][1] # One
  /\ r1cs.num_inputs = 3 /\ r1cs.num_aux = 1
  /\ cs.instance = <<One, witness[1][2], witness[1][3]>>
  /\ cs.witness = <<witness[1][4]>>

\* The target holds every variable and constraint of the circuit model.
FullyPopulated ==
  /\ Len(cs.instance) = r1cs.num_inputs
  /\ Len(cs.witness) = r1cs.num_aux
  /\ Len(cs.constraints) = Len(r1cs.constraints)

(***************************************************************************)
(* C5: a failing call ends synthesis with that call's error and no further *)
(* call; synthesis never reports success over a partly populated target.   *)
(***************************************************************************)
C5_AllOrNothing ==
  /\ \A k \in 1..(Len(calls) - 1) : calls[k][3] = Ok
  /\ pc # "done" => (result = "None" /\ AllOk(calls))
  /\ pc = "done" =>
       \/ result = Ok /\ AllOk(calls) /\ FullyPopulated
       \/ /\ result \in SynthesisErrors
          /\ calls # <<>>
          /\ calls[Len(calls)][3] = result

C5_Witness ==
  /\ pc = "done"
  /\ result \in SynthesisErrors
  /\ Len(calls) = 4
  /\ calls[4][1] = "enforce_constraint"
  /\ Len(cs.constraints) = 0 /\ Len(cs.instance) = 3

====
